---- MODULE Spec2Model ----
(***************************************************************************)
(* Metropolis simulation of a classical Heisenberg spin lattice (spyns).   *)
(*                                                                         *)
(* Number representation.  The program computes in C doubles; the model    *)
(* computes in exact integers on inputs for which every intermediate       *)
(* value of the program is an integer:                                     *)
(*   - a uniform() value is kept as the numerator u of the real u/2, so    *)
(*     the draws are 0 and 1/2;                                            *)
(*   - angles are kept in quarter turns (pi/2), where sin and cos are      *)
(*     -1, 0 or 1;                                                         *)
(*   - spins are axis vectors, interaction parameters are integers and     *)
(*     every lattice has an even sum of site energies, so that             *)
(*     total_energy / 2.0 is exact (RawEnergySumEven checks this);         *)
(*   - exp() is evaluated in fixed point with ExpScale units per 1;        *)
(*   - a norm is kept as its radicand (the sum of squares).                *)
(***************************************************************************)
EXTENDS Integers, Sequences, FiniteSets, TLC

\* ------------------------------------------------------------------ bounds
MaxSites == 2
MaxSweeps == 2
\* the number of steps of a whole simulation:
\* number_sites * (equilibration_sweeps + sweeps) <= MaxSteps
MaxSteps == 4
\* the same, for the two runs that are compared step by step
MaxReplaySteps == 2
\* the number of save_full_state calls made between the calls of run_sweeps
MaxSaves == 2
\* the number of values drawn from a generator whose bounds are reconfigured
MaxDraws == 2

\* ------------------------------------------------------------------ inputs
\* <<temperature, sample_interval>>
TemperaturesAndIntervals == {<<1, 1>>, <<2, 2>>}
EquilibrationSweeps == {0, 1}
NumbersOfSublattices == {1, 2}
InitialSpins == {<<0, 0, 1>>, <<0, 1, 0>>}
\* the values uniform() returns, as numerators of halves: 0 and 1/2
UniformValues == {0, 1}
\* parameters.snapshot_filepath: empty (no snapshot is written) or a path;
\* the runs that sample every sweep write snapshots, the others do not
SnapshotFilepathAt(sample_interval) ==
    IF sample_interval = 1 THEN "snapshots" ELSE ""

\* ------------------------------------------------------------ arithmetic
ExpScale == 10000

\* sum of term_k, term_(k+1), ... of the series of exp(n/d), in fixed point
RECURSIVE ExpSeries(_, _, _, _)
ExpSeries(term, k, n, d) ==
    IF term = 0 THEN 0
    ELSE term + ExpSeries((term * n) \div (d * k), k + 1, n, d)

\* exp(-n/d) for n >= 0, d # 0, in units of 1/ExpScale
Exp(n, d) ==
    IF n = 0 THEN ExpScale
    ELSE IF d < 0 THEN ExpSeries(ExpScale, 1, n, 0 - d)
    ELSE (ExpScale * ExpScale) \div ExpSeries(ExpScale, 1, n, d)

\* sin and cos of an angle given in quarter turns
Sin(q) == CASE q % 4 = 0 -> 0 [] q % 4 = 1 -> 1 [] q % 4 = 2 -> 0 [] q % 4 = 3 -> -1
Cos(q) == CASE q % 4 = 0 -> 1 [] q % 4 = 1 -> 0 [] q % 4 = 2 -> -1 [] q % 4 = 3 -> 0
\* acos of -1, 0, 1 in quarter turns
Acos(c) == CASE c = 1 -> 0 [] c = 0 -> 1 [] c = -1 -> 2

Dot(a, b) == a[1] * b[1] + a[2] * b[2] + a[3] * b[3]

\* ------------------------------------------------------ lattice topologies
\* A topology is given as neighbor lists nb[site] = sequence of <<neighbor, J>>
\* and flattened into the lookup tables the engine reads.
Sites(n) == 0 .. (n - 1)

RECURSIVE LookupStart(_, _)
LookupStart(nb, site) ==
    IF site = 0 THEN 0 ELSE LookupStart(nb, site - 1) + Len(nb[site - 1])

RECURSIVE Flatten(_, _, _)
Flatten(nb, site, n) ==
    IF site = n THEN <<>> ELSE nb[site] \o Flatten(nb, site + 1, n)

LookupTables(n, nsub, nb) ==
    LET flat == Flatten(nb, 0, n) IN
    [ number_sites |-> n,
      number_sublattices |-> nsub,
      sublattice_table |-> [s \in Sites(n) |-> s % nsub],
      neighbors_count |-> [s \in Sites(n) |-> Len(nb[s])],
      neighbors_lookup_index |-> [s \in Sites(n) |-> LookupStart(nb, s)],
      neighbors_table |-> [k \in 0 .. (Len(flat) - 1) |-> flat[k + 1][1]],
      interaction_parameters_table |-> [k \in 0 .. (Len(flat) - 1) |-> flat[k + 1][2]] ]

\* no site has neighbors
FreeLattice(n) == [s \in Sites(n) |-> <<>>]
\* open chain 0 - 1 - ... - (n-1), every bond listed at both ends with the same J
ChainLattice(n, J) ==
    [s \in Sites(n) |->
        (IF s > 0 THEN << <<s - 1, J>> >> ELSE <<>>) \o
        (IF s < n - 1 THEN << <<s + 1, J>> >> ELSE <<>>)]
\* site s lists s+1 only: the entry is not matched at the other end
DirectedLattice(n, J) ==
    [s \in Sites(n) |-> IF s < n - 1 THEN << <<s + 1, J>> >> ELSE <<>>]
\* site 0 lists itself
SelfLattice(n, J) ==
    [s \in Sites(n) |-> IF s = 0 THEN << <<0, J>> >> ELSE <<>>]

NeighborLists(n) ==
    {FreeLattice(n), ChainLattice(n, 1), DirectedLattice(n, -2), SelfLattice(n, 2)}

Lattices ==
    UNION {{LookupTables(n, nsub, nb) : nsub \in NumbersOfSublattices, nb \in NeighborLists(n)}
             : n \in 1 .. MaxSites}

\* the run of a site in the flattened tables
NeighborRun(lt, site) ==
    {k \in DOMAIN lt.neighbors_table :
        /\ k >= lt.neighbors_lookup_index[site]
        /\ k < lt.neighbors_lookup_index[site] + lt.neighbors_count[site]}

\* number of entries i -> j with coefficient J
EntryCount(lt, i, j, J) ==
    Cardinality({k \in NeighborRun(lt, i) :
        lt.neighbors_table[k] = j /\ lt.interaction_parameters_table[k] = J})

InteractionValues(lt) ==
    {lt.interaction_parameters_table[k] : k \in DOMAIN lt.interaction_parameters_table}

\* each entry i -> j with coefficient J is matched by an entry j -> i with the same J
Reciprocal(lt) ==
    \A i \in Sites(lt.number_sites), j \in Sites(lt.number_sites), J \in InteractionValues(lt) :
        EntryCount(lt, i, j, J) = EntryCount(lt, j, i, J)

\* no site lists itself as a neighbor
NoSelfNeighbor(lt) ==
    \A i \in Sites(lt.number_sites) : \A k \in NeighborRun(lt, i) : lt.neighbors_table[k] # i

\* no site has neighbors
NoNeighbors(lt) == \A i \in Sites(lt.number_sites) : lt.neighbors_count[i] = 0

\* ---------------------------------------------------------------- state
VARIABLES
    data,    \* SimulationHeisenbergData_t: parameters, lookup_tables, state,
             \* estimators, trace, random_number_generator
    ctl,     \* position of the caller, run_sweeps and sweep
    last,    \* outcome of the most recent step
    replica,     \* a second run [data, ctl, last] from the same start and seed
    engine_out,  \* the values the seeded engine has generated, in order
    turn         \* which of the two runs moves next

vars == <<data, ctl, last, replica, engine_out, turn>>

\* sum of f[0], ..., f[n-1]
RECURSIVE SumTo(_, _)
SumTo(f, n) == IF n = 0 THEN 0 ELSE SumTo(f, n - 1) + f[n - 1]

\* ------------------------------------------------- random number generator
\* mutant: the integer distribution is built with the upper bound number_sites
RandomNumberGenerator_UpperBound(number_sites) ==
    [ _engine |-> 0,
      _uniform |-> <<0, 1>>,
      _randint |-> <<0, number_sites>>,
      _uniform_low |-> 0,
      _uniform_high |-> 1,
      _randint_low |-> 0,
      _randint_high |-> number_sites ]

RandomNumberGenerator(number_sites) ==
    [ _engine |-> 0,                            \* values generated so far
      _uniform |-> <<0, 1>>,
      _randint |-> <<0, number_sites - 1>>,
      _uniform_low |-> 0,
      _uniform_high |-> 1,
      _randint_low |-> 0,
      _randint_high |-> number_sites ]

\* the values randint() can return: the distribution's inclusive range
RandintValues(rng) == rng._randint[1] .. rng._randint[2]

\* uniform(): the engine's value u (a numerator of halves) scaled to [low, high)
uniform(rng, u) == 2 * rng._uniform[1] + u * (rng._uniform[2] - rng._uniform[1])

\* the generator after `calls` draws
Advance(rng, calls) == [rng EXCEPT !._engine = @ + calls]

\* ----------------------------------------------------------- energy model
get_site_spin_vector(site_index, d) ==
    <<d.state.x[site_index], d.state.y[site_index], d.state.z[site_index]>>

\* mutant: the run of the site is read from the start of the tables
lookup_neighbor_states_FromZero(site_index, d) ==
    LET number_neighbors == d.lookup_tables.neighbors_count[site_index]
        lookup_start == 0
        neighbor_indices == [n \in 0 .. (number_neighbors - 1) |->
                                d.lookup_tables.neighbors_table[lookup_start + n]]
    IN  [ x |-> [n \in 0 .. (number_neighbors - 1) |-> d.state.x[neighbor_indices[n]]],
          y |-> [n \in 0 .. (number_neighbors - 1) |-> d.state.y[neighbor_indices[n]]],
          z |-> [n \in 0 .. (number_neighbors - 1) |-> d.state.z[neighbor_indices[n]]],
          interaction_parameters |->
              [n \in 0 .. (number_neighbors - 1) |->
                  d.lookup_tables.interaction_parameters_table[lookup_start + n]] ]

lookup_neighbor_states(site_index, d) ==
    LET number_neighbors == d.lookup_tables.neighbors_count[site_index]
        lookup_start == d.lookup_tables.neighbors_lookup_index[site_index]
        neighbor_indices == [n \in 0 .. (number_neighbors - 1) |->
                                d.lookup_tables.neighbors_table[lookup_start + n]]
    IN  [ x |-> [n \in 0 .. (number_neighbors - 1) |-> d.state.x[neighbor_indices[n]]],
          y |-> [n \in 0 .. (number_neighbors - 1) |-> d.state.y[neighbor_indices[n]]],
          z |-> [n \in 0 .. (number_neighbors - 1) |-> d.state.z[neighbor_indices[n]]],
          interaction_parameters |->
              [n \in 0 .. (number_neighbors - 1) |->
                  d.lookup_tables.interaction_parameters_table[lookup_start + n]] ]

\* mutant: the site's own spin is counted among its neighbors
compute_energy_of_spin_vector_at_site_OwnSpin(site_spin, site_index, d) ==
    LET number_neighbors == d.lookup_tables.neighbors_count[site_index]
        neighbor_states == lookup_neighbor_states(site_index, d)
    IN  Dot(site_spin, get_site_spin_vector(site_index, d)) +
        SumTo([n \in 0 .. (number_neighbors - 1) |->
                  neighbor_states.interaction_parameters[n] *
                      (site_spin[1] * neighbor_states.x[n] +
                       site_spin[2] * neighbor_states.y[n] +
                       site_spin[3] * neighbor_states.z[n])],
              number_neighbors)

\* mutant: a bond counts as -J times the dot product
compute_energy_of_spin_vector_at_site_MinusJ(site_spin, site_index, d) ==
    LET number_neighbors == d.lookup_tables.neighbors_count[site_index]
        neighbor_states == lookup_neighbor_states(site_index, d)
    IN  0 - SumTo([n \in 0 .. (number_neighbors - 1) |->
                      neighbor_states.interaction_parameters[n] *
                          (site_spin[1] * neighbor_states.x[n] +
                           site_spin[2] * neighbor_states.y[n] +
                           site_spin[3] * neighbor_states.z[n])],
                  number_neighbors)

compute_energy_of_spin_vector_at_site(site_spin, site_index, d) ==
    LET number_neighbors == d.lookup_tables.neighbors_count[site_index]
        neighbor_states == lookup_neighbor_states(site_index, d)
    IN  SumTo([n \in 0 .. (number_neighbors - 1) |->
                  neighbor_states.interaction_parameters[n] *
                      (site_spin[1] * neighbor_states.x[n] +
                       site_spin[2] * neighbor_states.y[n] +
                       site_spin[3] * neighbor_states.z[n])],
              number_neighbors)

compute_site_energy(site_index, d) ==
    compute_energy_of_spin_vector_at_site(get_site_spin_vector(site_index, d), site_index, d)

\* the sum of the site energies, before the division by 2.0
RawEnergySum(d) ==
    SumTo([s \in Sites(d.lookup_tables.number_sites) |-> compute_site_energy(s, d)],
          d.lookup_tables.number_sites)

\* mutant: the sum of the site energies is not halved
compute_total_energy_NotHalved(d) == RawEnergySum(d)

compute_total_energy(d) == RawEnergySum(d) \div 2

sum_spin_vectors_within_sublattices(d) ==
    [sublattice \in 0 .. (d.lookup_tables.number_sublattices - 1) |->
        [axis \in 0 .. 2 |->
            SumTo([s \in Sites(d.lookup_tables.number_sites) |->
                      IF d.lookup_tables.sublattice_table[s] = sublattice
                      THEN get_site_spin_vector(s, d)[axis + 1] ELSE 0],
                  d.lookup_tables.number_sites)]]

\* mutant: the total energy is added to the energy estimator
save_full_state_EnergyAdded(d) ==
    [d EXCEPT !.estimators.energy = @ + compute_total_energy(d),
              !.estimators.spin_vector = sum_spin_vectors_within_sublattices(d)]

save_full_state(d) ==
    [d EXCEPT !.estimators.energy = compute_total_energy(d),
              !.estimators.spin_vector = sum_spin_vectors_within_sublattices(d)]

\* ------------------------------------------------------------- trial flip
\* mutant: the third component is sin(phi)
sample_random_spin_vector_SinPhi(d, u1, u2) ==
    LET theta == (4 * uniform(d.random_number_generator, u1)) \div 2
        phi == Acos(uniform(d.random_number_generator, u2) - 1)
        sin_phi == Sin(phi)
        sin_theta == Sin(theta)
        cos_theta == Cos(theta)
    IN  <<sin_phi * cos_theta, sin_phi * sin_theta, sin_phi>>

\* u1, u2: the values of the two uniform() calls, in call order
sample_random_spin_vector(d, u1, u2) ==
    LET theta == (4 * uniform(d.random_number_generator, u1)) \div 2   \* 2.0 * pi * u
        phi == Acos(uniform(d.random_number_generator, u2) - 1)        \* acos(2.0 * u - 1.0)
        sin_phi == Sin(phi)
        cos_phi == Cos(phi)
        sin_theta == Sin(theta)
        cos_theta == Cos(theta)
    IN  <<sin_phi * cos_theta, sin_phi * sin_theta, cos_phi>>

\* mutant: the energy difference is taken the other way round
flip_PreMinusPost(site_index, d, u1, u2) ==
    LET current_spin_vector == get_site_spin_vector(site_index, d)
        site_energy_preflip ==
            compute_energy_of_spin_vector_at_site(current_spin_vector, site_index, d)
        trial_spin_vector == sample_random_spin_vector(d, u1, u2)
        site_energy_postflip ==
            compute_energy_of_spin_vector_at_site(trial_spin_vector, site_index, d)
    IN  [ energy_difference |-> site_energy_preflip - site_energy_postflip,
          current_spin_vector |-> current_spin_vector,
          trial_spin_vector |-> trial_spin_vector ]

flip(site_index, d, u1, u2) ==
    LET current_spin_vector == get_site_spin_vector(site_index, d)
        site_energy_preflip ==
            compute_energy_of_spin_vector_at_site(current_spin_vector, site_index, d)
        trial_spin_vector == sample_random_spin_vector(d, u1, u2)
        site_energy_postflip ==
            compute_energy_of_spin_vector_at_site(trial_spin_vector, site_index, d)
    IN  [ energy_difference |-> site_energy_postflip - site_energy_preflip,
          current_spin_vector |-> current_spin_vector,
          trial_spin_vector |-> trial_spin_vector ]

\* mutant: the energy estimator is set to the energy difference, not increased by it
keep_flip_and_update_state_EnergyAssigned(d, site_index, trial_flip) ==
    LET sublattice_index == d.lookup_tables.sublattice_table[site_index]
        spin_vector_change ==
            [axis \in 0 .. 2 |-> trial_flip.trial_spin_vector[axis + 1] -
                                 trial_flip.current_spin_vector[axis + 1]]
    IN  [d EXCEPT !.state.x[site_index] = trial_flip.trial_spin_vector[1],
                  !.state.y[site_index] = trial_flip.trial_spin_vector[2],
                  !.state.z[site_index] = trial_flip.trial_spin_vector[3],
                  !.estimators.energy = trial_flip.energy_difference,
                  !.estimators.spin_vector[sublattice_index] =
                      [axis \in 0 .. 2 |-> @[axis] + spin_vector_change[axis]]]

\* mutant: the change of the spin vector is added to the row after the site
\* index (modulo the number of rows), not to the row of the site's sublattice
keep_flip_and_update_state_RowOfSite(d, site_index, trial_flip) ==
    LET sublattice_index == (site_index + 1) % d.lookup_tables.number_sublattices
        spin_vector_change ==
            [axis \in 0 .. 2 |-> trial_flip.trial_spin_vector[axis + 1] -
                                 trial_flip.current_spin_vector[axis + 1]]
    IN  [d EXCEPT !.state.x[site_index] = trial_flip.trial_spin_vector[1],
                  !.state.y[site_index] = trial_flip.trial_spin_vector[2],
                  !.state.z[site_index] = trial_flip.trial_spin_vector[3],
                  !.estimators.energy = @ + trial_flip.energy_difference,
                  !.estimators.spin_vector[sublattice_index] =
                      [axis \in 0 .. 2 |-> @[axis] + spin_vector_change[axis]]]

\* mutant: the z component of the site's spin is not written
keep_flip_and_update_state_NoZ(d, site_index, trial_flip) ==
    LET sublattice_index == d.lookup_tables.sublattice_table[site_index]
        spin_vector_change ==
            [axis \in 0 .. 2 |-> trial_flip.trial_spin_vector[axis + 1] -
                                 trial_flip.current_spin_vector[axis + 1]]
    IN  [d EXCEPT !.state.x[site_index] = trial_flip.trial_spin_vector[1],
                  !.state.y[site_index] = trial_flip.trial_spin_vector[2],
                  !.estimators.energy = @ + trial_flip.energy_difference,
                  !.estimators.spin_vector[sublattice_index] =
                      [axis \in 0 .. 2 |-> @[axis] + spin_vector_change[axis]]]

\* mutant: the change of the spin is taken after the spin has been written
keep_flip_and_update_state_ChangeAfterWrite(d, site_index, trial_flip) ==
    LET sublattice_index == d.lookup_tables.sublattice_table[site_index]
        spin_vector_change ==
            [axis \in 0 .. 2 |-> trial_flip.trial_spin_vector[axis + 1] -
                                 trial_flip.trial_spin_vector[axis + 1]]
    IN  [d EXCEPT !.state.x[site_index] = trial_flip.trial_spin_vector[1],
                  !.state.y[site_index] = trial_flip.trial_spin_vector[2],
                  !.state.z[site_index] = trial_flip.trial_spin_vector[3],
                  !.estimators.energy = @ + trial_flip.energy_difference,
                  !.estimators.spin_vector[sublattice_index] =
                      [axis \in 0 .. 2 |-> @[axis] + spin_vector_change[axis]]]

keep_flip_and_update_state(d, site_index, trial_flip) ==
    LET sublattice_index == d.lookup_tables.sublattice_table[site_index]
        spin_vector_change ==
            [axis \in 0 .. 2 |-> trial_flip.trial_spin_vector[axis + 1] -
                                 trial_flip.current_spin_vector[axis + 1]]
    IN  [d EXCEPT !.state.x[site_index] = trial_flip.trial_spin_vector[1],
                  !.state.y[site_index] = trial_flip.trial_spin_vector[2],
                  !.state.z[site_index] = trial_flip.trial_spin_vector[3],
                  !.estimators.energy = @ + trial_flip.energy_difference,
                  !.estimators.spin_vector[sublattice_index] =
                      [axis \in 0 .. 2 |-> @[axis] + spin_vector_change[axis]]]

\* ------------------------------------------------------- Metropolis rule
proposal_distribution(energy_difference, temperature) ==
    Exp(energy_difference, temperature)

\* mutant: the test is energy_difference > 0
accept_or_reject_Strict(temperature, energy_difference, d, r) ==
    IF energy_difference > 0
    THEN LET acceptance_probability ==
                 proposal_distribution(energy_difference, temperature)
             random_number == uniform(d.random_number_generator, r)
         IN  [ accept |-> random_number * ExpScale <= 2 * acceptance_probability,
               uniform_calls |-> 1 ]
    ELSE [ accept |-> TRUE, uniform_calls |-> 0 ]

\* mutant: the comparison with the acceptance probability is reversed
accept_or_reject_Reversed(temperature, energy_difference, d, r) ==
    IF energy_difference >= 0
    THEN LET acceptance_probability ==
                 proposal_distribution(energy_difference, temperature)
             random_number == uniform(d.random_number_generator, r)
         IN  [ accept |-> random_number * ExpScale >= 2 * acceptance_probability,
               uniform_calls |-> 1 ]
    ELSE [ accept |-> TRUE, uniform_calls |-> 0 ]

\* r: the value uniform() returns if it is called.  `accept` is the result,
\* `uniform_calls` the number of uniform() calls made.
accept_or_reject(temperature, energy_difference, d, r) ==
    IF energy_difference >= 0
    THEN LET acceptance_probability ==
                 proposal_distribution(energy_difference, temperature)
             random_number == uniform(d.random_number_generator, r)
         IN  [ accept |-> random_number * ExpScale <= 2 * acceptance_probability,
               uniform_calls |-> 1 ]
    ELSE [ accept |-> TRUE, uniform_calls |-> 0 ]

pick_site(d, n) == n

\* mutant: the second number of the trial vector is not taken from the seeded
\* engine (r stands for a value of numpy's global generator, which
\* sample_random_state uses)
step_UnseededProposal(d, n, u1, u2, r) ==
    LET site_index == pick_site(d, n)
        trial_flip == flip(site_index, d, u1, r)
        decision == accept_or_reject(d.parameters.temperature,
                                     trial_flip.energy_difference, d, r)
        drawn == [d EXCEPT !.random_number_generator =
                      Advance(@, 3 + decision.uniform_calls)]
    IN  [ data |-> IF decision.accept
                   THEN keep_flip_and_update_state(drawn, site_index, trial_flip)
                   ELSE drawn,
          last |-> [ stepped |-> TRUE,
                     site_index |-> site_index,
                     trial_flip |-> trial_flip,
                     uniform_calls |-> decision.uniform_calls,
                     random_number |-> IF decision.uniform_calls = 1 THEN r ELSE -1,
                     accept_state |-> decision.accept ] ]

\* mutant: the flip is kept whatever accept_or_reject returns
step_KeptAnyway(d, n, u1, u2, r) ==
    LET site_index == pick_site(d, n)
        trial_flip == flip(site_index, d, u1, u2)
        decision == accept_or_reject(d.parameters.temperature,
                                     trial_flip.energy_difference, d, r)
        drawn == [d EXCEPT !.random_number_generator =
                      Advance(@, 3 + decision.uniform_calls)]
    IN  [ data |-> keep_flip_and_update_state(drawn, site_index, trial_flip),
          last |-> [ stepped |-> TRUE,
                     site_index |-> site_index,
                     trial_flip |-> trial_flip,
                     uniform_calls |-> decision.uniform_calls,
                     random_number |-> IF decision.uniform_calls = 1 THEN r ELSE -1,
                     accept_state |-> decision.accept ] ]

\* One Metropolis step.  n is the value of randint(), u1 and u2 the values of
\* the uniform() calls of the proposal, r the value of the uniform() call of the
\* acceptance test (used only if that call is made).
step(d, n, u1, u2, r) ==
    LET site_index == pick_site(d, n)
        trial_flip == flip(site_index, d, u1, u2)
        decision == accept_or_reject(d.parameters.temperature,
                                     trial_flip.energy_difference, d, r)
        drawn == [d EXCEPT !.random_number_generator =
                      Advance(@, 3 + decision.uniform_calls)]
    IN  [ data |-> IF decision.accept
                   THEN keep_flip_and_update_state(drawn, site_index, trial_flip)
                   ELSE drawn,
          last |-> [ stepped |-> TRUE,
                     site_index |-> site_index,
                     trial_flip |-> trial_flip,
                     uniform_calls |-> decision.uniform_calls,
                     random_number |-> IF decision.uniform_calls = 1 THEN r ELSE -1,
                     accept_state |-> decision.accept ] ]

\* ------------------------------------------------------------- sampling
\* np.linalg.norm: kept as the radicand, the sum of the squares
NormSquared(v) == v[0] * v[0] + v[1] * v[1] + v[2] * v[2]

\* spin_vector.sum(axis=0): the sum over the sublattices, per axis
SumOverSublattices(d) ==
    [axis \in 0 .. 2 |->
        SumTo([sub \in 0 .. (d.lookup_tables.number_sublattices - 1) |->
                  d.estimators.spin_vector[sub][axis]],
              d.lookup_tables.number_sublattices)]

update_trace(d, sweep_index) ==
    [d EXCEPT !.trace = Append(@, [ sweep |-> sweep_index,
                                    energy |-> d.estimators.energy,
                                    spin_vector |-> d.estimators.spin_vector,
                                    magnetization |-> d.estimators.magnetization ])]

\* dump_state_snapshot_to_disk hands the container as it is (of which the
\* spins and the trace are kept here) and the label to the persistence layer:
\* the requests made so far are kept in `snapshots`
dump_state_snapshot_to_disk(d, sweep_index) ==
    [d EXCEPT !.snapshots = Append(@, [ sweep_index |-> sweep_index,
                                        state |-> d.state,
                                        trace |-> d.trace ])]

\* mutant: the equilibration flag is not tested
SamplingCondition_NoFlag(d, sweep_index, equilibration_run) ==
    sweep_index % d.parameters.sample_interval = 0

\* mutant: the equilibration flag is tested the wrong way round
SamplingCondition_FlagInverted(d, sweep_index, equilibration_run) ==
    sweep_index % d.parameters.sample_interval = 0 /\ equilibration_run

\* the condition of the sampling branch of sweep
SamplingCondition(d, sweep_index, equilibration_run) ==
    sweep_index % d.parameters.sample_interval = 0 /\ ~equilibration_run

\* mutant: number_samples is set to the sweep index
TakeSample_CountIsIndex(d, sweep_index) ==
    LET measured == [d EXCEPT !.estimators.magnetization =
                                  NormSquared(SumOverSublattices(d)),
                              !.estimators.number_samples = sweep_index]
        traced == update_trace(measured, sweep_index)
    IN  IF d.parameters.snapshot_filepath # ""
        THEN dump_state_snapshot_to_disk(traced, sweep_index + 1)
        ELSE traced

\* mutant: the trace record is appended before the magnetization is recomputed
TakeSample_TraceFirst(d, sweep_index) ==
    LET traced == update_trace(d, sweep_index)
        measured == [traced EXCEPT !.estimators.magnetization =
                                       NormSquared(SumOverSublattices(d)),
                                   !.estimators.number_samples = @ + 1]
    IN  IF d.parameters.snapshot_filepath # ""
        THEN dump_state_snapshot_to_disk(measured, sweep_index + 1)
        ELSE measured

\* mutant: the snapshot is labelled with the sweep index
TakeSample_SnapshotLabel(d, sweep_index) ==
    LET measured == [d EXCEPT !.estimators.magnetization =
                                  NormSquared(SumOverSublattices(d)),
                              !.estimators.number_samples = @ + 1]
        traced == update_trace(measured, sweep_index)
    IN  IF d.parameters.snapshot_filepath # ""
        THEN dump_state_snapshot_to_disk(traced, sweep_index)
        ELSE traced

\* the sampling branch of sweep
TakeSample(d, sweep_index) ==
    LET measured == [d EXCEPT !.estimators.magnetization =
                                  NormSquared(SumOverSublattices(d)),
                              !.estimators.number_samples = @ + 1]
        traced == update_trace(measured, sweep_index)
    IN  IF d.parameters.snapshot_filepath # ""
        THEN dump_state_snapshot_to_disk(traced, sweep_index + 1)
        ELSE traced

\* ------------------------------------------------------------------ Init
NoStep ==
    [ stepped |-> FALSE, site_index |-> 0,
      trial_flip |-> [ energy_difference |-> 0,
                       current_spin_vector |-> <<0, 0, 0>>,
                       trial_spin_vector |-> <<0, 0, 0>> ],
      uniform_calls |-> 0, random_number |-> -1, accept_state |-> FALSE ]

\* SimulationHeisenbergData_t for a lattice, a spin configuration and parameters
SimulationHeisenbergData(lt, spins, parameters) ==
    [ parameters |-> parameters,
      lookup_tables |-> lt,
      state |-> [ x |-> [s \in Sites(lt.number_sites) |-> spins[s][1]],
                  y |-> [s \in Sites(lt.number_sites) |-> spins[s][2]],
                  z |-> [s \in Sites(lt.number_sites) |-> spins[s][3]] ],
      trace |-> <<>>,
      snapshots |-> <<>>,
      estimators |-> [ number_samples |-> 0,
                       energy |-> 0,
                       spin_vector |-> [sub \in 0 .. (lt.number_sublattices - 1) |->
                                           [axis \in 0 .. 2 |-> 0]],
                       magnetization |-> 0 ],
      random_number_generator |-> RandomNumberGenerator(lt.number_sites) ]

Parameters ==
    { [ sample_interval |-> tk[2],
        temperature |-> tk[1],
        sweeps |-> sweeps,
        equilibration_sweeps |-> equilibration_sweeps,
        snapshot_filepath |-> SnapshotFilepathAt(tk[2]) ] :
      tk \in TemperaturesAndIntervals,
      sweeps \in 0 .. MaxSweeps,
      equilibration_sweeps \in EquilibrationSweeps }

\* steps, accepted: the calls of step made by the current run_sweeps call and
\* those of them that kept the flip; saves: the calls of save_full_state
Idle(phase) ==
    [ pc |-> "idle", phase |-> phase, equilibration_run |-> FALSE,
      sweeps |-> 0, sweep_index |-> 0, i |-> 0, steps |-> 0, accepted |-> 0,
      saves |-> 0 ]

\* no second run is under way
NoReplica == [ data |-> <<>>, ctl |-> Idle("none"), last |-> NoStep ]

InitialData ==
    { save_full_state(SimulationHeisenbergData(lt, spins, parameters)) :
        <<lt, parameters, spins>> \in
            { <<lt, parameters, spins>> \in
                  Lattices \X Parameters \X
                  UNION {[Sites(n) -> InitialSpins] : n \in 1 .. MaxSites} :
                      /\ DOMAIN spins = Sites(lt.number_sites)
                      /\ lt.number_sites *
                            (parameters.equilibration_sweeps + parameters.sweeps)
                               <= MaxSteps } }

Init ==
    /\ data \in InitialData
    /\ ctl = Idle("start")
    /\ last = NoStep
    /\ replica = NoReplica
    /\ engine_out = <<>>
    /\ turn = "primary"

\* ------------------------------------------------------------- handlers
\* Each handler maps a run s = [data, ctl, last] to the set of runs it can
\* leave behind, with the engine values it consumed in `drawn`.
Run(d, c, l, drawn) == [ data |-> d, ctl |-> c, last |-> l, drawn |-> drawn ]

\* mutant: the loop of run_sweeps runs one sweep more
NextSweep_OneMore(c, sweep_index) ==
    IF sweep_index <= c.sweeps
    THEN [c EXCEPT !.pc = "step", !.sweep_index = sweep_index, !.i = 0]
    ELSE [c EXCEPT !.pc = "idle",
                   !.phase = IF c.equilibration_run THEN "equilibrated" ELSE "finished"]

\* the position after sweep sweep_index - 1 of a run_sweeps call has returned
NextSweep(c, sweep_index) ==
    IF sweep_index < c.sweeps
    THEN [c EXCEPT !.pc = "step", !.sweep_index = sweep_index, !.i = 0]
    ELSE [c EXCEPT !.pc = "idle",
                   !.phase = IF c.equilibration_run THEN "equilibrated" ELSE "finished"]

\* run_sweeps is called: first for the equilibration run, then for the
\* production run
run_sweeps(s, equilibration_run) ==
    IF /\ s.ctl.pc = "idle"
       /\ s.ctl.phase = IF equilibration_run THEN "start" ELSE "equilibrated"
    THEN LET sweeps == IF equilibration_run
                       THEN s.data.parameters.equilibration_sweeps
                       ELSE s.data.parameters.sweeps
         IN  { Run(s.data,
                   NextSweep([s.ctl EXCEPT !.equilibration_run = equilibration_run,
                                           !.sweeps = sweeps,
                                           !.steps = 0,
                                           !.accepted = 0], 0),
                   s.last, <<>>) }
    ELSE {}

\* mutant: the loop of sweep repeats an iteration whose flip was rejected
sweep_step_Retry(s) ==
    IF s.ctl.pc = "step" /\ s.ctl.i < s.data.lookup_tables.number_sites
    THEN { LET result == step(s.data, draw[1], draw[2], draw[3], draw[4])
           IN  Run(result.data,
                   [s.ctl EXCEPT !.i = IF result.last.accept_state THEN @ + 1 ELSE @,
                                 !.steps = @ + 1,
                                 !.accepted = IF result.last.accept_state
                                              THEN @ + 1 ELSE @],
                   result.last,
                   SubSeq(draw, 1, 3 + result.last.uniform_calls)) :
             draw \in RandintValues(s.data.random_number_generator) \X
                      UniformValues \X UniformValues \X UniformValues }
    ELSE {}

\* one iteration of the loop of sweep: a call of step
sweep_step(s) ==
    IF s.ctl.pc = "step" /\ s.ctl.i < s.data.lookup_tables.number_sites
    THEN { LET result == step(s.data, draw[1], draw[2], draw[3], draw[4])
           IN  Run(result.data,
                   [s.ctl EXCEPT !.i = @ + 1,
                                 !.steps = @ + 1,
                                 !.accepted = IF result.last.accept_state
                                              THEN @ + 1 ELSE @],
                   result.last,
                   SubSeq(draw, 1, 3 + result.last.uniform_calls)) :
             draw \in RandintValues(s.data.random_number_generator) \X
                      UniformValues \X UniformValues \X UniformValues }
    ELSE {}

\* the rest of sweep after its loop, and the return to the loop of run_sweeps
sweep_sample(s) ==
    IF s.ctl.pc = "step" /\ s.ctl.i = s.data.lookup_tables.number_sites
    THEN { Run(IF SamplingCondition(s.data, s.ctl.sweep_index, s.ctl.equilibration_run)
               THEN TakeSample(s.data, s.ctl.sweep_index)
               ELSE s.data,
               NextSweep(s.ctl, s.ctl.sweep_index + 1),
               s.last, <<>>) }
    ELSE {}

\* --------------------------------------------------------------- actions
Current == [ data |-> data, ctl |-> ctl, last |-> last ]

Becomes(m) ==
    /\ data' = m.data
    /\ ctl' = m.ctl
    /\ last' = m.last

RunSweeps(equilibration_run) ==
    /\ \E m \in run_sweeps(Current, equilibration_run) : Becomes(m)
    /\ UNCHANGED <<replica, engine_out, turn>>

Step ==
    /\ \E m \in sweep_step(Current) : Becomes(m)
    /\ UNCHANGED <<replica, engine_out, turn>>

Sample ==
    /\ \E m \in sweep_sample(Current) : Becomes(m)
    /\ UNCHANGED <<replica, engine_out, turn>>

Next ==
    \/ RunSweeps(TRUE)
    \/ RunSweeps(FALSE)
    \/ Step
    \/ Sample

Spec == Init /\ [][Next]_vars

\* ------------------------------------------- parameters taken as given
\* SimulationHeisenbergData_t and RandomNumberGenerator copy what they are
\* handed: a run can be built with a temperature below zero.  (A temperature
\* of zero makes proposal_distribution divide by zero and a lattice without
\* sites gives uniform_int_distribution the bounds 0 and -1: neither is drawn
\* here.)
NegativeTemperatures == {-1}

DataAsGiven ==
    { [d EXCEPT !.parameters.temperature = temperature] :
        d \in InitialData, temperature \in NegativeTemperatures }

InitAsGiven ==
    /\ data \in DataAsGiven
    /\ ctl = Idle("start")
    /\ last = NoStep
    /\ replica = NoReplica
    /\ engine_out = <<>>
    /\ turn = "primary"

SpecAsGiven == InitAsGiven /\ [][Next]_vars

\* the division by 2.0 in compute_total_energy is exact on the lattices of the model
RawEnergySumEven == RawEnergySum(data) % 2 = 0

\* ------------------------------------- a generator that is reconfigured
\* The properties of RandomNumberGenerator, read and assigned by the caller
\* between draws.  `last` is the last call and its value, engine_out the
\* values the draws returned.
randint_bounds(rng) == <<rng._randint_low, rng._randint_high>>

uniform_bounds(rng) == <<rng._uniform_low, rng._uniform_high>>

\* mutant: the setter builds a new engine
randint_bounds_setter_NewEngine(rng, value) ==
    [rng EXCEPT !._engine = 0,
                !._randint_low = value[1],
                !._randint_high = value[2],
                !._randint = <<value[1], value[2]>>]

randint_bounds_setter(rng, value) ==
    [rng EXCEPT !._randint_low = value[1],
                !._randint_high = value[2],
                !._randint = <<value[1], value[2]>>]

uniform_bounds_setter(rng, value) ==
    [rng EXCEPT !._uniform_low = value[1],
                !._uniform_high = value[2],
                !._uniform = <<value[1], value[2]>>]

RandintBoundValues == {<<0, 0>>, <<0, 1>>, <<1, 2>>}
UniformBoundValues == {<<0, 1>>, <<0, 2>>, <<1, 2>>}

Call(name, value) == [ call |-> name, value |-> value ]

InitBounds ==
    /\ data \in { d \in InitialData :
                     /\ NoNeighbors(d.lookup_tables)
                     /\ d.lookup_tables.number_sublattices = 1
                     /\ d.parameters.temperature = 1
                     /\ d.parameters.sweeps = 0
                     /\ d.parameters.equilibration_sweeps = 0
                     /\ \A i \in Sites(d.lookup_tables.number_sites) :
                           get_site_spin_vector(i, d) = <<0, 0, 1>> }
    /\ ctl = Idle("start")
    /\ last = Call("__cinit__", <<>>)
    /\ replica = NoReplica
    /\ engine_out = <<>>
    /\ turn = "primary"

\* an assignment to randint_bounds: of one of the values, or of the value read
\* from the property
SetRandintBounds ==
    /\ \E value \in RandintBoundValues \cup {randint_bounds(data.random_number_generator)} :
          /\ data' = [data EXCEPT !.random_number_generator =
                                      randint_bounds_setter(@, value)]
          /\ last' = Call("randint_bounds", value)
    /\ UNCHANGED <<ctl, replica, engine_out, turn>>

SetUniformBounds ==
    /\ \E value \in UniformBoundValues \cup {uniform_bounds(data.random_number_generator)} :
          /\ data' = [data EXCEPT !.random_number_generator =
                                      uniform_bounds_setter(@, value)]
          /\ last' = Call("uniform_bounds", value)
    /\ UNCHANGED <<ctl, replica, engine_out, turn>>

Randint ==
    /\ data.random_number_generator._engine < MaxDraws
    /\ \E value \in RandintValues(data.random_number_generator) :
          /\ data' = [data EXCEPT !.random_number_generator = Advance(@, 1)]
          /\ last' = Call("randint", value)
          /\ engine_out' = Append(engine_out, value)
    /\ UNCHANGED <<ctl, replica, turn>>

Uniform ==
    /\ data.random_number_generator._engine < MaxDraws
    /\ \E u \in UniformValues :
          LET value == uniform(data.random_number_generator, u) IN
          /\ data' = [data EXCEPT !.random_number_generator = Advance(@, 1)]
          /\ last' = Call("uniform", value)
          /\ engine_out' = Append(engine_out, value)
    /\ UNCHANGED <<ctl, replica, turn>>

NextBounds ==
    \/ SetRandintBounds
    \/ SetUniformBounds
    \/ Randint
    \/ Uniform

SpecBounds == InitBounds /\ [][NextBounds]_vars

\* ------------------------------------------------- two runs, one seed
\* Two runs start from the same data with engines seeded alike.  The engine's
\* k-th value is a function of the seed: the first run to ask for it fixes it
\* in engine_out, the second run receives the same value.  The runs move in
\* turn, the first one ahead by one move.
Moves(s) ==
    run_sweeps(s, TRUE) \cup run_sweeps(s, FALSE) \cup sweep_step(s) \cup sweep_sample(s)

\* the values m consumed are the engine's values at the run's position
FromEngine(s, m) ==
    LET position == s.data.random_number_generator._engine IN
    /\ position + Len(m.drawn) <= Len(engine_out)
    /\ m.drawn = SubSeq(engine_out, position + 1, position + Len(m.drawn))

InitialDataOfReplay ==
    { d \in InitialData :
        /\ d.lookup_tables.number_sites *
              (d.parameters.equilibration_sweeps + d.parameters.sweeps) <= MaxReplaySteps
        /\ d.parameters.temperature = 2
        /\ d.lookup_tables.number_sublattices = 2
        /\ \A i \in Sites(d.lookup_tables.number_sites) :
              get_site_spin_vector(i, d) = get_site_spin_vector(0, d) }

\* a run with resynchronisation: the caller may call save_full_state between
\* the calls of run_sweeps
SaveFullState ==
    /\ ctl.pc = "idle"
    /\ ctl.saves < MaxSaves
    /\ data' = save_full_state(data)
    /\ ctl' = [ctl EXCEPT !.saves = @ + 1]
    /\ UNCHANGED <<last, replica, engine_out, turn>>

InitResync ==
    /\ data \in InitialDataOfReplay
    /\ ctl = Idle("start")
    /\ last = NoStep
    /\ replica = NoReplica
    /\ engine_out = <<>>
    /\ turn = "primary"

NextResync ==
    \/ Next
    \/ SaveFullState

SpecResync == InitResync /\ [][NextResync]_vars

InitReplay ==
    /\ data \in InitialDataOfReplay
    /\ ctl = Idle("start")
    /\ last = NoStep
    /\ replica = Current
    /\ engine_out = <<>>
    /\ turn = "primary"

PrimaryMove ==
    /\ turn = "primary"
    /\ \E m \in Moves(Current) :
         /\ Becomes(m)
         /\ engine_out' = engine_out \o m.drawn
    /\ turn' = "replica"
    /\ UNCHANGED replica

ReplicaMove ==
    /\ turn = "replica"
    /\ \E m \in Moves(replica) :
         /\ FromEngine(replica, m)
         /\ replica' = [ data |-> m.data, ctl |-> m.ctl, last |-> m.last ]
    /\ turn' = "primary"
    /\ UNCHANGED <<data, ctl, last, engine_out>>

NextReplay ==
    \/ PrimaryMove
    \/ ReplicaMove

SpecReplay == InitReplay /\ [][NextReplay]_vars

\* --------------------------------------------------------------- claims
lookup == data.lookup_tables
AllSites == Sites(lookup.number_sites)
SpinVectors ==
    {<<1, 0, 0>>, <<-1, 0, 0>>, <<0, 1, 0>>, <<0, -1, 0>>, <<0, 0, 1>>, <<0, 0, -1>>}
\* the transition is a call of step
IsStep == ctl'.steps = ctl.steps + 1
\* the transition is the end of a sweep
IsSweepEnd == ctl.pc = "step" /\ ctl.i = lookup.number_sites /\ ctl' # ctl

\* C1 as stated: on every topology, after any sequence of steps the incremental
\* energy estimator equals compute_total_energy() of the current spins.
C1_EnergyConsistentOnAnyTopology ==
    data.estimators.energy = compute_total_energy(data)

\* C1 amended: when the neighbor table is reciprocal and no site lists itself,
\* after any sequence of steps the incremental energy estimator equals
\* compute_total_energy() of the current spins.
C1_EnergyConsistent ==
    (Reciprocal(lookup) /\ NoSelfNeighbor(lookup)) =>
        data.estimators.energy = compute_total_energy(data)

\* a coupled reciprocal lattice in which a step changed the energy and an
\* earlier step of the same run_sweeps call was rejected
C1_Witness ==
    /\ Reciprocal(lookup) /\ NoSelfNeighbor(lookup) /\ ~NoNeighbors(lookup)
    /\ last.stepped /\ last.accept_state
    /\ last.trial_flip.energy_difference # 0
    /\ ctl.accepted < ctl.steps

\* C2: for every sublattice, the incremental spin_vector row equals the sum of
\* the current spins of the sites of that sublattice.
C2_SublatticeSumsConsistent ==
    \A sub \in 0 .. (lookup.number_sublattices - 1) : \A axis \in 0 .. 2 :
        data.estimators.spin_vector[sub][axis] =
            SumTo([s \in AllSites |->
                      IF lookup.sublattice_table[s] = sub
                      THEN get_site_spin_vector(s, data)[axis + 1] ELSE 0],
                  lookup.number_sites)

\* two sublattices, and a step has just replaced the spin of a site of the second
C2_Witness ==
    /\ lookup.number_sublattices = 2
    /\ last.stepped /\ last.accept_state
    /\ lookup.sublattice_table[last.site_index] = 1
    /\ last.trial_flip.trial_spin_vector # last.trial_flip.current_spin_vector

\* C3: a step with energy_difference < 0 is accepted without a uniform draw;
\* otherwise exactly one uniform number r is drawn and the step is accepted
\* iff r <= exp(-energy_difference / temperature).
C3_MetropolisRule ==
    last.stepped =>
        IF last.trial_flip.energy_difference < 0
        THEN last.accept_state /\ last.uniform_calls = 0
        ELSE /\ last.uniform_calls = 1
             /\ last.random_number \in UniformValues
             /\ last.accept_state <=>
                    (last.random_number * ExpScale <=
                        2 * Exp(last.trial_flip.energy_difference,
                                data.parameters.temperature))

\* an uphill step was rejected after its draw
C3_Witness ==
    /\ last.stepped
    /\ last.trial_flip.energy_difference > 0
    /\ last.uniform_calls = 1
    /\ ~last.accept_state

\* C4: a step with energy_difference = 0 is accepted, whatever the temperature
\* and the uniform draw.
C4_ZeroDifferenceAccepted ==
    (last.stepped /\ last.trial_flip.energy_difference = 0) => last.accept_state

\* at a site with neighbors, a step with energy_difference = 0 drew r = 1/2
C4_Witness ==
    /\ last.stepped
    /\ lookup.neighbors_count[last.site_index] > 0
    /\ last.trial_flip.energy_difference = 0
    /\ last.random_number = 1
    /\ last.accept_state

\* C5: at a site without neighbors every spin vector has site energy 0, and a
\* step at such a site has energy_difference = 0, is accepted, overwrites the
\* site's spin with the trial vector and leaves the energy estimator unchanged.
C5_ZeroNeighborSite ==
    /\ [](\A s \in AllSites : lookup.neighbors_count[s] = 0 =>
            \A v \in SpinVectors : compute_energy_of_spin_vector_at_site(v, s, data) = 0)
    /\ [][(IsStep /\ lookup.neighbors_count[last'.site_index] = 0) =>
            /\ last'.trial_flip.energy_difference = 0
            /\ last'.accept_state
            /\ get_site_spin_vector(last'.site_index, data') =
                  last'.trial_flip.trial_spin_vector
            /\ data'.estimators.energy = data.estimators.energy]_vars

\* in a lattice that has coupled sites too, a step at a site without neighbors
\* replaced the spin by a different one
C5_Witness ==
    /\ ~NoNeighbors(lookup)
    /\ last.stepped
    /\ lookup.neighbors_count[last.site_index] = 0
    /\ last.trial_flip.trial_spin_vector # last.trial_flip.current_spin_vector
    /\ get_site_spin_vector(last.site_index, data) = last.trial_flip.trial_spin_vector

\* C6: every site's spin has unit norm in every state, and a spin changes only
\* by an accepted step at that site, which sets all three components to the
\* trial vector.
C6_UnitSpins ==
    /\ [](\A s \in AllSites :
            Dot(get_site_spin_vector(s, data), get_site_spin_vector(s, data)) = 1)
    /\ [][\A s \in AllSites :
            get_site_spin_vector(s, data') # get_site_spin_vector(s, data) =>
                /\ IsStep
                /\ last'.accept_state
                /\ last'.site_index = s
                /\ get_site_spin_vector(s, data') = last'.trial_flip.trial_spin_vector]_vars

\* an accepted step replaced a spin along z by a trial vector along x
C6_Witness ==
    /\ last.stepped /\ last.accept_state
    /\ last.trial_flip.current_spin_vector[3] # 0
    /\ last.trial_flip.trial_spin_vector[1] # 0
    /\ ctl.accepted >= 2

\* C8: every value randint() can return, and so every site index pick_site
\* returns, lies in [0, number_sites).
C8_SiteInRange ==
    /\ \A n \in RandintValues(data.random_number_generator) :
          0 <= n /\ n < lookup.number_sites
    /\ last.stepped => 0 <= last.site_index /\ last.site_index < lookup.number_sites

\* the last site of a lattice of several sites was picked
C8_Witness ==
    /\ last.stepped
    /\ lookup.number_sites > 1
    /\ last.site_index = lookup.number_sites - 1

\* C9: the end of a sweep is a sampling event iff the sweep is not an
\* equilibration sweep and sweep_index mod sample_interval = 0; a sampling event
\* adds 1 to number_samples and appends one trace record carrying sweep_index;
\* every other transition changes neither number_samples nor the trace.
C9_SamplingEvents ==
    [][IF /\ IsSweepEnd
          /\ ~ctl.equilibration_run
          /\ ctl.sweep_index % data.parameters.sample_interval = 0
       THEN /\ data'.estimators.number_samples = data.estimators.number_samples + 1
            /\ Len(data'.trace) = Len(data.trace) + 1
            /\ SubSeq(data'.trace, 1, Len(data.trace)) = data.trace
            /\ data'.trace[Len(data'.trace)].sweep = ctl.sweep_index
       ELSE /\ data'.estimators.number_samples = data.estimators.number_samples
            /\ data'.trace = data.trace]_vars

\* after an equilibration sweep, a production run of two sweeps with
\* sample_interval 2 has sampled its first sweep and not its second
C9_Witness ==
    /\ ctl.phase = "finished"
    /\ data.parameters.equilibration_sweeps = 1
    /\ data.parameters.sweeps = 2
    /\ data.parameters.sample_interval = 2
    /\ data.estimators.number_samples = 1
    /\ Len(data.trace) = 1
    /\ data.trace[1].sweep = 0

\* C10: in a lattice without neighbors every step is accepted and the energy
\* estimator is 0 in every state; the production run of S sweeps makes
\* S * number_sites steps and ends with number_samples equal to the number of
\* i in 0 .. S-1 with i mod sample_interval = 0.
C10_FreeLatticeRun ==
    NoNeighbors(lookup) =>
        /\ data.estimators.energy = 0
        /\ ctl.accepted = ctl.steps
        /\ last.stepped => last.accept_state
        /\ ctl.phase = "finished" =>
              /\ ctl.steps = data.parameters.sweeps * lookup.number_sites
              /\ data.estimators.number_samples =
                    Cardinality({i \in 0 .. (data.parameters.sweeps - 1) :
                                    i % data.parameters.sample_interval = 0})

\* a finished production run of two sweeps over two free sites, every sweep sampled
C10_Witness ==
    /\ NoNeighbors(lookup)
    /\ ctl.phase = "finished"
    /\ lookup.number_sites = 2
    /\ data.parameters.sweeps = 2
    /\ data.parameters.sample_interval = 1
    /\ ctl.steps = 4
    /\ data.estimators.number_samples = 2

SweepCount ==
    IF ctl.equilibration_run
    THEN data.parameters.equilibration_sweeps
    ELSE data.parameters.sweeps
\* what a run_sweeps call under way has left to do: the iterations of the loop
\* of sweep and the sampling parts of the sweeps not yet returned
Remaining(c) ==
    IF c.pc = "step"
    THEN (c.sweeps - c.sweep_index) * (lookup.number_sites + 1) - c.i
    ELSE 0
\* the transition is a call of run_sweeps
IsCall == ctl.pc = "idle" /\ ctl' # ctl

\* C11: run_sweeps terminates (what it has left to do is never negative and
\* shrinks with every move); it runs equilibration_sweeps sweeps when
\* equilibration_run is true and sweeps sweeps otherwise, of number_sites steps
\* each, with sweep_index starting at 0, going up by one and ending at the
\* count minus one; a call with a count of 0 returns at once with no step made
\* and the data unchanged.
C11_RunSweepsCount ==
    /\ [](ctl.phase # "start" => ctl.sweeps = SweepCount)
    /\ [](ctl.pc = "step" =>
            /\ ctl.sweep_index \in 0 .. (SweepCount - 1)
            /\ ctl.i \in 0 .. lookup.number_sites
            /\ ctl.steps = ctl.sweep_index * lookup.number_sites + ctl.i
            /\ Remaining(ctl) > 0)
    /\ [](ctl.pc = "idle" /\ ctl.phase # "start" =>
            /\ ctl.steps = SweepCount * lookup.number_sites
            /\ SweepCount > 0 => ctl.sweep_index = SweepCount - 1)
    /\ [][/\ IsCall => /\ ctl'.equilibration_run = (ctl.phase = "start")
                       /\ ctl'.sweep_index = 0
                       /\ ctl'.steps = 0
                       /\ data' = data
                       /\ ctl'.sweeps = 0 => ctl'.pc = "idle"
          /\ ctl.pc = "step" =>
                /\ Remaining(ctl') < Remaining(ctl)
                /\ ctl'.sweep_index = IF IsSweepEnd /\ ctl'.pc = "step"
                                      THEN ctl.sweep_index + 1
                                      ELSE ctl.sweep_index
                /\ ctl'.equilibration_run = ctl.equilibration_run
                /\ ctl'.sweeps = ctl.sweeps]_vars

\* an equilibration run of no sweep has returned with nothing changed, and the
\* production run of two sweeps after it has returned
C11_Witness ==
    /\ ctl.phase = "finished"
    /\ data.parameters.equilibration_sweeps = 0
    /\ data.parameters.sweeps = 2
    /\ ctl.sweep_index = 1
    /\ ctl.steps = 2 * lookup.number_sites

\* the values the seeded engine has given out
EngineCalls(d) == d.random_number_generator._engine
\* the sampled part of the data
Sampled(d) ==
    <<d.estimators.number_samples, d.estimators.magnetization, d.trace>>

\* C12: within a sweep every move before the number_sites-th step is a step,
\* and sampling and the end of the sweep come only after number_sites steps;
\* a step is one iteration of the loop whether or not its flip is kept: it
\* takes one site from randint, two numbers for one trial vector and at most
\* one number for one decision, and the loop index goes up by one.
C12_StepsPerSweep ==
    [][/\ (ctl.pc = "step" /\ ctl.i < lookup.number_sites) =>
              /\ IsStep
              /\ Sampled(data') = Sampled(data)
              /\ ctl'.pc = "step"
              /\ ctl'.sweep_index = ctl.sweep_index
       /\ IsSweepEnd => ~IsStep
       /\ Sampled(data') # Sampled(data) => IsSweepEnd
       /\ IsStep =>
              /\ ctl'.i = ctl.i + 1
              /\ last'.stepped
              /\ last'.site_index \in AllSites
              /\ last'.uniform_calls \in {0, 1}
              /\ EngineCalls(data') = EngineCalls(data) + 1 + 2 + last'.uniform_calls
              /\ ctl'.accepted = ctl.accepted + IF last'.accept_state THEN 1 ELSE 0]_vars

\* a sweep over two sites has made its two steps, the first kept, the second
\* rejected, and has not sampled yet
C12_Witness ==
    /\ ctl.pc = "step"
    /\ lookup.number_sites = 2
    /\ ctl.i = 2
    /\ ctl.accepted = 1
    /\ last.stepped
    /\ ~last.accept_state

\* an equilibration run is under way
Equilibrating == ctl.pc = "step" /\ ctl.equilibration_run
\* spin_vector with the change of an accepted flip added to the row of the site
SpinVectorMoved(d, site_index, trial_flip) ==
    [sub \in 0 .. (d.lookup_tables.number_sublattices - 1) |->
        [axis \in 0 .. 2 |->
            d.estimators.spin_vector[sub][axis] +
                IF sub = d.lookup_tables.sublattice_table[site_index]
                THEN trial_flip.trial_spin_vector[axis + 1] -
                         trial_flip.current_spin_vector[axis + 1]
                ELSE 0]]

\* C13: no move of an equilibration run changes number_samples, magnetization
\* or the trace or requests a snapshot, whatever the sweep index, the sampling
\* interval and the snapshot path, so that they are as constructed until the
\* production run starts; a step of the equilibration run that keeps its flip
\* still writes the spin of the site and adds to energy and spin_vector.
C13_EquilibrationNotSampled ==
    /\ []((ctl.phase = "start" \/ ctl.equilibration_run) =>
             /\ Sampled(data) = <<0, 0, <<>>>>
             /\ data.snapshots = <<>>)
    /\ [][Equilibrating =>
             /\ Sampled(data') = Sampled(data)
             /\ data'.snapshots = data.snapshots
             /\ (IsStep /\ last'.accept_state) =>
                   /\ get_site_spin_vector(last'.site_index, data') =
                          last'.trial_flip.trial_spin_vector
                   /\ data'.estimators.energy =
                          data.estimators.energy + last'.trial_flip.energy_difference
                   /\ data'.estimators.spin_vector =
                          SpinVectorMoved(data, last'.site_index, last'.trial_flip)]_vars

\* an equilibration sweep with index 0 has ended in a run that samples every
\* sweep and has a snapshot path, after a kept flip that changed the energy
C13_Witness ==
    /\ ctl.pc = "idle"
    /\ ctl.phase = "equilibrated"
    /\ data.parameters.sample_interval = 1
    /\ data.parameters.snapshot_filepath # ""
    /\ last.accept_state
    /\ last.trial_flip.energy_difference # 0
    /\ data.estimators.number_samples = 0
    /\ data.snapshots = <<>>

\* C14 as stated: with a temperature that is not positive or a lattice without
\* sites the run ends in an error before any computation: no sweep is entered,
\* no step is made and spins, estimators and trace stay as constructed.
C14_ConfigurationErrorsSurfaced ==
    (data.parameters.temperature <= 0 \/ lookup.number_sites = 0) =>
        /\ ctl.pc # "step"
        /\ ctl.steps = 0
        /\ ~last.stepped
        /\ Sampled(data) = <<0, 0, <<>>>>

\* two sites that list each other as their only neighbor with J = 1, the spin
\* of site 0 along +z and the spin of site 1 along -z
AntiparallelPair ==
    /\ \E nsub \in NumbersOfSublattices :
          lookup = LookupTables(2, nsub, ChainLattice(2, 1))
    /\ get_site_spin_vector(0, data) = <<0, 0, 1>>
    /\ get_site_spin_vector(1, data) = <<0, 0, -1>>

\* C15 as stated: on the antiparallel pair compute_total_energy returns +1.
C15_AntiparallelPairEnergyPlusOne ==
    AntiparallelPair => compute_total_energy(data) = 1

\* C15 amended: on the antiparallel pair compute_total_energy returns -1: each
\* site contributes J times the dot product, 1 * (-1), and the sum -2 is halved.
C15_AntiparallelPairEnergy ==
    AntiparallelPair =>
        /\ compute_site_energy(0, data) = -1
        /\ compute_site_energy(1, data) = -1
        /\ compute_total_energy(data) = -1

\* the antiparallel pair, reached by a kept flip of site 1 to -z
C15_Witness ==
    /\ AntiparallelPair
    /\ last.accept_state
    /\ last.site_index = 1
    /\ last.trial_flip.trial_spin_vector = <<0, 0, -1>>

\* C16: over the equilibration call and the production call, the trace only
\* grows, by one record at the end of a sweep, labelled with the index of that
\* sweep; the records already there stay as they are, and the sweep indices
\* of successive records are strictly increasing.
C16_TraceAppendOnly ==
    /\ [](\A i \in 1 .. Len(data.trace), j \in 1 .. Len(data.trace) :
             i < j => data.trace[i].sweep < data.trace[j].sweep)
    /\ [][\/ data'.trace = data.trace
          \/ /\ IsSweepEnd
             /\ Len(data'.trace) = Len(data.trace) + 1
             /\ SubSeq(data'.trace, 1, Len(data.trace)) = data.trace
             /\ data'.trace[Len(data'.trace)].sweep = ctl.sweep_index]_vars

\* after an equilibration sweep, a production run has recorded its sweeps 0 and 1
C16_Witness ==
    /\ ctl.phase = "finished"
    /\ data.parameters.equilibration_sweeps = 1
    /\ Len(data.trace) = 2
    /\ data.trace[1].sweep = 0
    /\ data.trace[2].sweep = 1

C18_RejectedStepFrame ==
    [][(IsStep /\ ~last'.accept_state) =>
          /\ data' = [data EXCEPT !.random_number_generator = data'.random_number_generator]
          /\ data'.random_number_generator =
                 [data.random_number_generator EXCEPT !._engine = @ + 4]
          /\ last'.uniform_calls = 1
          /\ last'.trial_flip.energy_difference >= 0]_vars

\* a flip that would have changed the spin of its site and raised the energy
\* has been rejected
C18_Witness ==
    /\ last.stepped
    /\ ~last.accept_state
    /\ last.trial_flip.energy_difference > 0
    /\ last.trial_flip.trial_spin_vector # last.trial_flip.current_spin_vector
    /\ get_site_spin_vector(last.site_index, data) = last.trial_flip.current_spin_vector

\* C19: a step at site i whose flip is kept writes the candidate as the spin of
\* i, adds energy_difference to energy and adds candidate minus previous spin
\* of i to the spin_vector row of the sublattice of i; the spins of the other
\* sites, the other rows of spin_vector, magnetization, number_samples, the
\* trace, the snapshots, the lookup tables and the parameters stay as they are.
C19_AcceptedStepFrame ==
    [][(IsStep /\ last'.accept_state) =>
          LET i == last'.site_index
              trial_flip == last'.trial_flip
          IN  /\ trial_flip.current_spin_vector = get_site_spin_vector(i, data)
              /\ get_site_spin_vector(i, data') = trial_flip.trial_spin_vector
              /\ \A s \in AllSites \ {i} :
                    get_site_spin_vector(s, data') = get_site_spin_vector(s, data)
              /\ data'.estimators.energy =
                     data.estimators.energy + trial_flip.energy_difference
              /\ data'.estimators.spin_vector = SpinVectorMoved(data, i, trial_flip)
              /\ \A sub \in DOMAIN data.estimators.spin_vector :
                    sub # lookup.sublattice_table[i] =>
                        data'.estimators.spin_vector[sub] = data.estimators.spin_vector[sub]
              /\ Sampled(data') = Sampled(data)
              /\ data'.snapshots = data.snapshots
              /\ data'.lookup_tables = data.lookup_tables
              /\ data'.parameters = data.parameters]_vars

\* a flip of site 1, in the second of two sublattices and with a neighbor,
\* that changed the spin and the energy has been kept
C19_Witness ==
    /\ last.accept_state
    /\ last.site_index = 1
    /\ lookup.number_sublattices = 2
    /\ lookup.neighbors_count[1] = 1
    /\ last.trial_flip.energy_difference # 0
    /\ last.trial_flip.trial_spin_vector # last.trial_flip.current_spin_vector
    /\ get_site_spin_vector(1, data) = last.trial_flip.trial_spin_vector

\* the sum of f over the set S
RECURSIVE SumOver(_, _)
SumOver(f, S) ==
    IF S = {} THEN 0
    ELSE LET k == CHOOSE k \in S : TRUE IN f[k] + SumOver(f, S \ {k})
\* E(v) at a site: the sum over the entries k of the site's run of
\* interaction_parameters_table[k] * dot(v, spin of neighbors_table[k])
RunEnergy(d, site, v) ==
    SumOver([k \in NeighborRun(d.lookup_tables, site) |->
                d.lookup_tables.interaction_parameters_table[k] *
                    Dot(v, get_site_spin_vector(d.lookup_tables.neighbors_table[k], d))],
            NeighborRun(d.lookup_tables, site))

\* C20: the trial flip of a step at a site holds the spin stored at the site as
\* current and E(candidate) - E(current) as energy_difference, both sums taken
\* over the site's own run against the spins as they were before the step;
\* when the flip is not kept, spins and estimators are as before the step.
C20_FlipEnergyDifference ==
    [][IsStep =>
          LET site == last'.site_index
              trial_flip == last'.trial_flip
          IN  /\ trial_flip.current_spin_vector = get_site_spin_vector(site, data)
              /\ trial_flip.energy_difference =
                     RunEnergy(data, site, trial_flip.trial_spin_vector) -
                     RunEnergy(data, site, trial_flip.current_spin_vector)
              /\ ~last'.accept_state =>
                     /\ data'.state = data.state
                     /\ data'.estimators = data.estimators]_vars

\* a step at site 1 of the two-site chain, whose run starts at entry 1 of the
\* tables, has proposed a flip that changes the energy
C20_Witness ==
    /\ last.stepped
    /\ last.site_index = 1
    /\ lookup.number_sites = 2
    /\ lookup.neighbors_lookup_index[1] = 1
    /\ lookup.neighbors_count[1] = 1
    /\ last.trial_flip.energy_difference # 0

\* the entries of the neighbor table that stand for a bond once: the entry
\* i -> j of every pair with i <= j (its match j -> i is left out)
BondEntries(lt) ==
    {e \in Sites(lt.number_sites) \X DOMAIN lt.neighbors_table :
        e[2] \in NeighborRun(lt, e[1]) /\ e[1] <= lt.neighbors_table[e[2]]}
\* the sum over the bonds of J * dot(spin_i, spin_j)
BondSum(d) ==
    SumOver([e \in BondEntries(d.lookup_tables) |->
                d.lookup_tables.interaction_parameters_table[e[2]] *
                    Dot(get_site_spin_vector(e[1], d),
                        get_site_spin_vector(d.lookup_tables.neighbors_table[e[2]], d))],
            BondEntries(d.lookup_tables))

\* C21 as stated: when the neighbor table is reciprocal, compute_total_energy
\* equals the sum over the bonds of J * dot(spin_i, spin_j), each bond once.
C21_BondSumOnReciprocalTable ==
    Reciprocal(lookup) => compute_total_energy(data) = BondSum(data)

\* C21 amended: when the neighbor table is reciprocal and no site lists itself,
\* compute_total_energy equals the sum over the bonds of J * dot(spin_i,
\* spin_j), each bond once.
C21_BondSum ==
    (Reciprocal(lookup) /\ NoSelfNeighbor(lookup)) =>
        compute_total_energy(data) = BondSum(data)

\* a chain with a bond whose two spins are at right angles after a kept flip:
\* the bond sum has changed from J to 0
C21_Witness ==
    /\ Reciprocal(lookup)
    /\ NoSelfNeighbor(lookup)
    /\ lookup.neighbors_count[0] = 1
    /\ last.accept_state
    /\ last.trial_flip.energy_difference = -1
    /\ BondSum(data) = 0

\* the data with estimators that hold other values
OtherEstimators(d) ==
    [d EXCEPT !.estimators.energy = @ + 3,
              !.estimators.spin_vector =
                  [sub \in DOMAIN @ |-> [axis \in 0 .. 2 |-> @[sub][axis] - 1]]]
\* the transition is a call of save_full_state
IsSave == ctl'.saves = ctl.saves + 1

\* C22: a call of save_full_state sets energy to compute_total_energy and
\* spin_vector to the sublattice sums of the spins as they are, the same
\* values it would set had the estimators held anything else; it leaves spins,
\* magnetization, number_samples, trace, snapshots, lookup tables, parameters
\* and generator as they are; a second call right after changes nothing.
C22_SaveFullState ==
    [][IsSave =>
          /\ data'.estimators.energy = compute_total_energy(data)
          /\ data'.estimators.spin_vector = sum_spin_vectors_within_sublattices(data)
          /\ data' = save_full_state(OtherEstimators(data))
          /\ data' = [data EXCEPT !.estimators.energy = data'.estimators.energy,
                                  !.estimators.spin_vector = data'.estimators.spin_vector]
          /\ save_full_state(data') = data']_vars

\* on a table that is not reciprocal, after an equilibration run whose last
\* flip was kept and changed the energy, two calls of save_full_state have
\* been made and the estimator is the total energy
C22_Witness ==
    /\ ctl.saves = 2
    /\ ctl.phase = "equilibrated"
    /\ ~Reciprocal(lookup)
    /\ last.accept_state
    /\ last.trial_flip.energy_difference # 0
    /\ data.estimators.energy = compute_total_energy(data)
    /\ data.estimators.energy # 0

\* the sum of the spins of all sites, per axis
TotalSpin(d) ==
    [axis \in 0 .. 2 |->
        SumTo([s \in Sites(d.lookup_tables.number_sites) |->
                  get_site_spin_vector(s, d)[axis + 1]],
              d.lookup_tables.number_sites)]
\* the transition is a sampling event
IsSamplingEvent == IsSweepEnd /\ Len(data'.trace) = Len(data.trace) + 1

\* C23: a sampling event sets magnetization to the norm of the sum over the
\* sublattices of spin_vector as it is at the end of the sweep (norms are kept
\* as their squares), which is the norm of the sum of the spins of all sites,
\* and the trace record of the event carries that value; a step leaves
\* magnetization as it is.
C23_MagnetizationAtSampling ==
    [][/\ IsSamplingEvent =>
             /\ data'.estimators.magnetization = NormSquared(SumOverSublattices(data))
             /\ data'.estimators.magnetization = NormSquared(TotalSpin(data))
             /\ data'.trace[Len(data'.trace)].magnetization =
                    data'.estimators.magnetization
             /\ data'.trace[Len(data'.trace)].spin_vector = data.estimators.spin_vector
       /\ IsStep => data'.estimators.magnetization = data.estimators.magnetization]_vars

\* two sampling events have recorded different magnetizations, the second the
\* one the estimator holds
C23_Witness ==
    /\ Len(data.trace) = 2
    /\ data.trace[1].magnetization # data.trace[2].magnetization
    /\ data.trace[2].magnetization = data.estimators.magnetization
    /\ data.estimators.magnetization = NormSquared(TotalSpin(data))

\* C24: a sampling event requests one snapshot when snapshot_filepath is set
\* and none when it is empty; the request is labelled sweep_index + 1 and is
\* handed the trace that already ends with the record of the event, which is
\* labelled sweep_index; earlier requests stay as they are, and no other move
\* requests a snapshot.
C24_SnapshotRequest ==
    [][/\ IsSamplingEvent =>
             /\ data'.trace[Len(data'.trace)].sweep = ctl.sweep_index
             /\ IF data.parameters.snapshot_filepath # ""
                THEN /\ Len(data'.snapshots) = Len(data.snapshots) + 1
                     /\ SubSeq(data'.snapshots, 1, Len(data.snapshots)) = data.snapshots
                     /\ LET request == data'.snapshots[Len(data'.snapshots)]
                        IN  /\ request.sweep_index = ctl.sweep_index + 1
                            /\ request.trace = data'.trace
                            /\ request.state = data.state
                ELSE data'.snapshots = data.snapshots
       /\ ~IsSamplingEvent => data'.snapshots = data.snapshots]_vars

\* with a snapshot path, the sweeps 0 and 1 of a production run have been
\* recorded and snapshots labelled 1 and 2 requested
C24_Witness ==
    /\ data.parameters.snapshot_filepath # ""
    /\ Len(data.trace) = 2
    /\ Len(data.snapshots) = 2
    /\ data.snapshots[1].sweep_index = 1
    /\ data.snapshots[2].sweep_index = 2
    /\ data.trace[2].sweep = 1

rng == data.random_number_generator

\* C25: an assignment to randint_bounds replaces the integer distribution and
\* its recorded bounds and nothing else of the generator, an assignment to
\* uniform_bounds the real distribution and its recorded bounds and nothing
\* else: the engine stays where it is in its sequence and the other
\* distribution as it is; the engine never goes back.
C25_BoundsKeepEngine ==
    [][/\ last'.call = "randint_bounds" =>
             /\ rng' = [rng EXCEPT !._randint = rng'._randint,
                                   !._randint_low = rng'._randint_low,
                                   !._randint_high = rng'._randint_high]
             /\ randint_bounds(rng') = last'.value
       /\ last'.call = "uniform_bounds" =>
             /\ rng' = [rng EXCEPT !._uniform = rng'._uniform,
                                   !._uniform_low = rng'._uniform_low,
                                   !._uniform_high = rng'._uniform_high]
             /\ uniform_bounds(rng') = last'.value
       /\ rng'._engine >= rng._engine]_vars

\* after two draws, with the real distribution reconfigured before, the
\* integer bounds have been assigned anew
C25_Witness ==
    /\ last.call = "randint_bounds"
    /\ last.value = <<1, 2>>
    /\ rng._engine = 2
    /\ rng._randint = <<1, 2>>
    /\ rng._uniform = <<0, 2>>

\* the data with the spin of a site overwritten
Overwritten(d, site, v) ==
    [d EXCEPT !.state.x[site] = v[1], !.state.y[site] = v[2], !.state.z[site] = v[3]]

\* C26: when the neighbor table is reciprocal and no site lists itself, the
\* energy_difference of the trial flip of a step is the change of
\* compute_total_energy that overwriting the spin of the site with the
\* candidate makes, and a step that keeps its flip takes an energy estimator
\* equal to compute_total_energy to one equal to it again.
C26_DifferenceIsTotalChange ==
    [][(IsStep /\ Reciprocal(lookup) /\ NoSelfNeighbor(lookup)) =>
          /\ last'.trial_flip.energy_difference =
                 compute_total_energy(Overwritten(data, last'.site_index,
                                                  last'.trial_flip.trial_spin_vector)) -
                 compute_total_energy(data)
          /\ (last'.accept_state /\ data.estimators.energy = compute_total_energy(data)) =>
                 /\ data'.state = Overwritten(data, last'.site_index,
                                              last'.trial_flip.trial_spin_vector).state
                 /\ data'.estimators.energy = compute_total_energy(data')]_vars

\* on the two-site chain a flip that raises the energy by 1 has been kept
C26_Witness ==
    /\ Reciprocal(lookup)
    /\ NoSelfNeighbor(lookup)
    /\ lookup.number_sites = 2
    /\ last.accept_state
    /\ last.trial_flip.energy_difference = 1
    /\ data.estimators.energy = compute_total_energy(data)

\* C27 as stated: randint_bounds reports the inclusive bounds of the
\* distribution randint() draws from, from construction onward, so that
\* assigning randint_bounds the value read from it leaves the values randint()
\* can return as they are.
C27_RandintBoundsReported ==
    /\ randint_bounds(rng) = rng._randint
    /\ RandintValues(randint_bounds_setter(rng, randint_bounds(rng))) = RandintValues(rng)
====
